---------------------------- MODULE Spec2Model ----------------------------
(***************************************************************************)
(* A model of src/src/lib.rs: the signed, encrypted HTTP API client.       *)
(*                                                                         *)
(* Strings and byte vectors are sequences of byte values 0..255 (a Rust    *)
(* String is its UTF-8 bytes).  SHA-1 is an uninterpreted injective term   *)
(* (collision-free); the AES-256 block transformation is a small keyed     *)
(* permutation of 16-byte blocks, while CBC chaining, PKCS7 padding, hex,  *)
(* UTF-8 validation, decimal formatting and JSON serialisation are         *)
(* computed as the libraries compute them.                                 *)
(***************************************************************************)
EXTENDS Integers, Sequences, FiniteSets

(***************************************************************************)
(* Small helpers                                                           *)
(***************************************************************************)
RECURSIVE Repeat(_, _)
Repeat(b, n) == IF n <= 0 THEN <<>> ELSE <<b>> \o Repeat(b, n - 1)

Take(s, n) == SubSeq(s, 1, n)
Drop(s, n) == SubSeq(s, n + 1, Len(s))

\* bitwise exclusive or of two bytes
RECURSIVE XorBits(_, _, _)
XorBits(a, b, n) ==
    IF n = 0 THEN 0
    ELSE (((a % 2) + (b % 2)) % 2) + 2 * XorBits(a \div 2, b \div 2, n - 1)

Xor(a, b) == XorBits(a, b, 8)

XorBlock(x, y) == [i \in 1..Len(x) |-> Xor(x[i], y[i])]

(***************************************************************************)
(* format!("{}", i64) and i64::to_string: the decimal rendering            *)
(***************************************************************************)
RECURSIVE DecimalNat(_)
DecimalNat(n) ==
    IF n < 10 THEN <<48 + n>> ELSE DecimalNat(n \div 10) \o <<48 + (n % 10)>>

Decimal(n) == IF n < 0 THEN <<45>> \o DecimalNat(0 - n) ELSE DecimalNat(n)

(***************************************************************************)
(* hex::decode and the lowercase hex rendering                             *)
(***************************************************************************)
HexDigit(v) == IF v < 10 THEN 48 + v ELSE 87 + v

RECURSIVE HexEncode(_)
HexEncode(bytes) ==
    IF bytes = <<>> THEN <<>>
    ELSE <<HexDigit(Head(bytes) \div 16), HexDigit(Head(bytes) % 16)>>
         \o HexEncode(Tail(bytes))

\* the value of one hex character, -1 when it is none (both cases accepted)
HexVal(c) ==
    IF c \in 48..57 THEN c - 48
    ELSE IF c \in 97..102 THEN c - 87
    ELSE IF c \in 65..70 THEN c - 55
    ELSE -1

RECURSIVE HexPairs(_)
HexPairs(s) ==
    IF s = <<>> THEN <<>>
    ELSE <<(16 * HexVal(s[1])) + HexVal(s[2])>> \o HexPairs(Drop(s, 2))

\* hex::decode: Err(OddLength) first, then Err(InvalidHexCharacter)
HexDecode(s) ==
    IF Len(s) % 2 # 0 THEN [ok |-> FALSE, bytes |-> <<>>]
    ELSE IF \E i \in 1..Len(s) : HexVal(s[i]) < 0 THEN [ok |-> FALSE, bytes |-> <<>>]
    ELSE [ok |-> TRUE, bytes |-> HexPairs(s)]

(***************************************************************************)
(* String::from_utf8: UTF-8 validation                                     *)
(***************************************************************************)
IsCont(b) == b \in 128..191

RECURSIVE Utf8Valid(_)
Utf8Valid(s) ==
    IF s = <<>> THEN TRUE
    ELSE LET b == s[1] n == Len(s) IN
         IF b < 128 THEN Utf8Valid(Drop(s, 1))
         ELSE IF b \in 194..223
              THEN n >= 2 /\ IsCont(s[2]) /\ Utf8Valid(Drop(s, 2))
         ELSE IF b \in 224..239
              THEN /\ n >= 3
                   /\ IsCont(s[2]) /\ IsCont(s[3])
                   /\ (b = 224 => s[2] >= 160)
                   /\ (b = 237 => s[2] <= 159)
                   /\ Utf8Valid(Drop(s, 3))
         ELSE IF b \in 240..244
              THEN /\ n >= 4
                   /\ IsCont(s[2]) /\ IsCont(s[3]) /\ IsCont(s[4])
                   /\ (b = 240 => s[2] >= 144)
                   /\ (b = 244 => s[2] <= 143)
                   /\ Utf8Valid(Drop(s, 4))
         ELSE FALSE

FromUtf8(bytes) == [ok |-> Utf8Valid(bytes), str |-> bytes]

(***************************************************************************)
(* type Aes256Cbc = Cbc<Aes256, Pkcs7>                                     *)
(***************************************************************************)
KeySize == 32
BlockSize == 16

\* the position a block byte moves to and comes from under the block permutation
Rot(i) == (i % BlockSize) + 1
RotInv(j) == ((j + BlockSize - 2) % BlockSize) + 1

\* The block transformation under a 32-byte key: a keyed permutation of blocks.
AesEncryptBlock(key, b) ==
    [i \in 1..BlockSize |-> (b[Rot(i)] + key[i] + key[BlockSize + i]) % 256]

AesDecryptBlock(key, c) ==
    [j \in 1..BlockSize |->
        (c[RotInv(j)] + 512 - key[RotInv(j)] - key[BlockSize + RotInv(j)]) % 256]

\* Cbc::new_from_slices(key, iv): the IV must be one block, the key one AES-256 key
NewFromSlices_KeyOnly(key, iv) ==
    IF Len(key) # KeySize THEN [ok |-> FALSE, cipher |-> [key |-> <<>>, iv |-> <<>>]]
    ELSE [ok |-> TRUE, cipher |-> [key |-> key, iv |-> iv]]

NewFromSlices(key, iv) ==
    IF Len(iv) # BlockSize THEN [ok |-> FALSE, cipher |-> [key |-> <<>>, iv |-> <<>>]]
    ELSE IF Len(key) # KeySize THEN [ok |-> FALSE, cipher |-> [key |-> <<>>, iv |-> <<>>]]
    ELSE [ok |-> TRUE, cipher |-> [key |-> key, iv |-> iv]]

\* Cbc::decrypt_blocks: every block is decrypted and xored with the running iv,
\* which becomes the ciphertext block just read.  Returns the cipher as left behind.
RECURSIVE DecryptBlocks(_, _)
DecryptBlocks(cipher, buf) ==
    IF buf = <<>> THEN [cipher |-> cipher, out |-> <<>>]
    ELSE LET block == Take(buf, BlockSize)
             plain == XorBlock(AesDecryptBlock(cipher.key, block), cipher.iv)
             rest  == DecryptBlocks([cipher EXCEPT !.iv = block], Drop(buf, BlockSize))
         IN  [cipher |-> rest.cipher, out |-> plain \o rest.out]

\* Pkcs7::unpad over the whole buffer
Unpad(data) ==
    IF data = <<>> THEN [ok |-> FALSE, len |-> 0]
    ELSE LET l == Len(data) n == data[Len(data)] IN
         IF n = 0 \/ n > l THEN [ok |-> FALSE, len |-> 0]
         ELSE IF \E i \in (l - n + 1)..(l - 1) : data[i] # n THEN [ok |-> FALSE, len |-> 0]
         ELSE [ok |-> TRUE, len |-> l - n]

\* BlockMode::decrypt_vec(self, ciphertext): consumes the cipher it is called on
DecryptVec_KeepPadding(cipher, ciphertext) ==
    IF Len(ciphertext) % BlockSize # 0
    THEN [ok |-> FALSE, bytes |-> <<>>, cipher |-> cipher]
    ELSE LET d == DecryptBlocks(cipher, ciphertext)
         IN  [ok |-> Unpad(d.out).ok, bytes |-> d.out, cipher |-> d.cipher]

DecryptVec(cipher, ciphertext) ==
    IF Len(ciphertext) % BlockSize # 0
    THEN [ok |-> FALSE, bytes |-> <<>>, cipher |-> cipher]
    ELSE LET d == DecryptBlocks(cipher, ciphertext)
             u == Unpad(d.out)
         IN  IF ~u.ok THEN [ok |-> FALSE, bytes |-> <<>>, cipher |-> d.cipher]
             ELSE [ok |-> TRUE, bytes |-> Take(d.out, u.len), cipher |-> d.cipher]

\* The peer's side of the cipher: PKCS7 padding and CBC encryption.
Pad(data) ==
    LET n == BlockSize - (Len(data) % BlockSize) IN data \o Repeat(n, n)

RECURSIVE EncryptBlocks(_, _, _)
EncryptBlocks(key, iv, buf) ==
    IF buf = <<>> THEN <<>>
    ELSE LET c == AesEncryptBlock(key, XorBlock(Take(buf, BlockSize), iv))
         IN  c \o EncryptBlocks(key, c, Drop(buf, BlockSize))

EncryptVec(key, iv, plaintext) == EncryptBlocks(key, iv, Pad(plaintext))

(***************************************************************************)
(* serde_json::Value and serde_json::to_string                             *)
(***************************************************************************)
VNull      == [t |-> "null", n |-> 0, s |-> <<>>, kv |-> <<>>]
VNum(n)    == [t |-> "num",  n |-> n, s |-> <<>>, kv |-> <<>>]
VStr(s)    == [t |-> "str",  n |-> 0, s |-> s,    kv |-> <<>>]
\* kv is a sequence of <<key, value>> entries; an array leaves the keys empty
VArr(kv)   == [t |-> "arr",  n |-> 0, s |-> <<>>, kv |-> kv]
VObj(kv)   == [t |-> "obj",  n |-> 0, s |-> <<>>, kv |-> kv]

\* the escape of one byte inside a JSON string
EscapeByte(b) ==
    IF b = 34 THEN <<92, 34>>
    ELSE IF b = 92 THEN <<92, 92>>
    ELSE IF b = 8 THEN <<92, 98>>
    ELSE IF b = 9 THEN <<92, 116>>
    ELSE IF b = 10 THEN <<92, 110>>
    ELSE IF b = 12 THEN <<92, 102>>
    ELSE IF b = 13 THEN <<92, 114>>
    ELSE IF b < 32 THEN <<92, 117, 48, 48, HexDigit(b \div 16), HexDigit(b % 16)>>
    ELSE <<b>>

RECURSIVE EscapeStr(_)
EscapeStr(s) == IF s = <<>> THEN <<>> ELSE EscapeByte(Head(s)) \o EscapeStr(Tail(s))

Quoted(s) == <<34>> \o EscapeStr(s) \o <<34>>

RECURSIVE to_string(_)
RECURSIVE JoinEntries(_, _)
JoinEntries(kv, withKeys) ==
    IF kv = <<>> THEN <<>>
    ELSE (IF withKeys THEN Quoted(kv[1][1]) \o <<58>> ELSE <<>>)
         \o to_string(kv[1][2])
         \o (IF Len(kv) > 1 THEN <<44>> ELSE <<>>)
         \o JoinEntries(Tail(kv), withKeys)

\* to_string(&Value): the compact form, no whitespace
to_string(v) ==
    IF v.t = "null" THEN <<110, 117, 108, 108>>
    ELSE IF v.t = "num" THEN Decimal(v.n)
    ELSE IF v.t = "str" THEN Quoted(v.s)
    ELSE IF v.t = "arr" THEN <<91>> \o JoinEntries(v.kv, FALSE) \o <<93>>
    ELSE <<123>> \o JoinEntries(v.kv, TRUE) \o <<125>>

(***************************************************************************)
(* Sha1 and format!("{:x}", digest)                                        *)
(***************************************************************************)
\* SHA-1 as a collision-free function: the digest is a term over its message
Sha1(msg) == [alg |-> "sha1", msg |-> msg]

\* the lowercase hexadecimal rendering of a digest
LowerHex(digest) == [fmt |-> "x", digest |-> digest]

\* sign_str: the six fields concatenated with no separator
SignStr_NoBody(app_id, nonce, timestamp, uri, body, app_secret) ==
    app_id \o nonce \o Decimal(timestamp) \o uri \o app_secret

SignStr_SecretFirst(app_id, nonce, timestamp, uri, body, app_secret) ==
    app_secret \o app_id \o nonce \o Decimal(timestamp) \o uri \o body

SignStr(app_id, nonce, timestamp, uri, body, app_secret) ==
    app_id \o nonce \o Decimal(timestamp) \o uri \o body \o app_secret

generate_signature(config, nonce, timestamp, uri, body) ==
    LowerHex(Sha1(SignStr(config.app_id, nonce, timestamp, uri, body,
                          config.app_secret)))

(***************************************************************************)
(* Values the client is constructed and called with                        *)
(***************************************************************************)
\* "id1" and "id"
AppId1 == <<105, 100, 49>>
AppId2 == <<105, 100>>
\* a 32-byte secret, a second one, and secrets one byte short and one byte long
Secret32 ==
    <<48, 49, 50, 51, 52, 53, 54, 55, 56, 57, 97, 98, 99, 100, 101, 102, 48,
      49, 50, 51, 52, 53, 54, 55, 56, 57, 97, 98, 99, 100, 101, 102>>
OtherSecret32 == [i \in 1..KeySize |-> Secret32[KeySize + 1 - i]]
Secret31 == Take(Secret32, KeySize - 1)
Secret33 == Secret32 \o <<48>>
\* a 16-byte iv, and ivs one byte short and one byte long
Iv16 == <<102, 101, 100, 99, 98, 97, 57, 56, 55, 54, 53, 52, 51, 50, 49, 48>>
Iv15 == Take(Iv16, BlockSize - 1)
Iv17 == Iv16 \o <<48>>
\* the configuration of tests::test_send_request: "your app secret", "you app iv"
TestSecret ==
    <<121, 111, 117, 114, 32, 97, 112, 112, 32, 115, 101, 99, 114, 101, 116>>
TestIv == <<121, 111, 117, 32, 97, 112, 112, 32, 105, 118>>
\* "https://x" and "/p"
BaseUrl == <<104, 116, 116, 112, 115, 58, 47, 47, 120>>
Content == <<47, 112>>

AppIds == {AppId1}
Secrets == {TestSecret, Secret31, Secret32, Secret33}
Ivs == {TestIv, Iv15, Iv16, Iv17}

Configs ==
    [app_id : AppIds, app_secret : Secrets, iv : Ivs,
     base_url : {BaseUrl}, content : {Content}]

\* "/a", "/a{}" and "2/a"
UriA == <<47, 97>>
UriABraces == <<47, 97, 123, 125>>
Uri2A == <<50, 47, 97>>
Uris == {UriA, UriABraces, Uri2A}
\* the (method, uri) pairs send is called with
Targets == {[method |-> "GET", uri |-> UriA], [method |-> "POST", uri |-> UriABraces]}
\* None, Some({}), Some({"key": "value"})
NoBody == [some |-> FALSE, value |-> VNull]
SomeBody(v) == [some |-> TRUE, value |-> v]
EmptyObject == VObj(<<>>)
KeyValue == VObj(<< <<<<107, 101, 121>>, VStr(<<118, 97, 108, 117, 101>>)>> >>)
BodyOptions == {NoBody, SomeBody(KeyValue)}
\* Uuid::new_v4().to_string(): 36 characters, hyphenated
Nonce1 ==
    <<51, 102, 50, 98, 56, 99, 49, 101, 45, 55, 97, 52, 100, 45, 52, 101, 57,
      98, 45, 56, 99, 54, 102, 45, 49, 100, 50, 101, 51, 102, 52, 97, 53, 98,
      54, 99>>
Nonce2 ==
    <<57, 97, 56, 98, 55, 99, 54, 100, 45, 53, 101, 52, 102, 45, 52, 97, 51,
      98, 45, 57, 99, 50, 100, 45, 49, 101, 48, 102, 57, 97, 56, 98, 55, 99,
      54, 100>>
Nonces == {Nonce1, Nonce2}
\* Utc::now()...timestamp_millis()
Timestamps == {1, 12}
\* what generate_nonce and the clock give one call
Moments == {[nonce |-> Nonce1, now |-> 1], [nonce |-> Nonce2, now |-> 12]}

(***************************************************************************)
(* Results of ApiClient::new and ApiClient::send                           *)
(***************************************************************************)
Ok(val)  == [kind |-> "Ok",    err |-> "",  val |-> val]
Err(e)   == [kind |-> "Err",   err |-> e,   val |-> <<>>]
\* Result::unwrap_err called on an Ok value: the call panics and returns nothing
Panic    == [kind |-> "Panic", err |-> "",  val |-> <<>>]
NoResult == [kind |-> "None",  err |-> "",  val |-> <<>>]

(***************************************************************************)
(* ApiClient::send, up to request.send()                                   *)
(***************************************************************************)
\* let body_str = match body_option.clone() { Some(body) => to_string(&body)?, None => "" }
BodyStr(body_option) ==
    IF body_option.some THEN to_string(body_option.value) ELSE <<>>

\* format!("{}{}{}", base_url, content, uri)
Url(config, uri) == config.base_url \o config.content \o uri

\* "data"
DataKey == <<100, 97, 116, 97>>

\* json!({ "data": to_string(&body)? }) when a body is given, json!({}) otherwise
Payload_RawValue(body_option) ==
    IF body_option.some THEN VObj(<< <<DataKey, body_option.value>> >>)
    ELSE VObj(<<>>)

Payload(body_option) ==
    IF body_option.some
    THEN VObj(<< <<DataKey, VStr(to_string(body_option.value))>> >>)
    ELSE VObj(<<>>)

\* "H-RUST-SDK-1.0.0"
UserAgent ==
    <<72, 45, 82, 85, 83, 84, 45, 83, 68, 75, 45, 49, 46, 48, 46, 48>>

NoSignature == LowerHex(Sha1(<<>>))

NoRequest ==
    [method |-> "", url |-> <<>>, user_agent |-> <<>>, app_id |-> <<>>,
     nonce |-> <<>>, timestamp |-> <<>>, signature |-> NoSignature,
     json |-> VNull, body |-> <<>>]

\* the request as built and handed to request.send()
BuildRequest(config, method, uri, body_option, nonce, now) ==
    [method     |-> method,
     url        |-> Url(config, uri),
     user_agent |-> UserAgent,
     app_id     |-> config.app_id,
     nonce      |-> nonce,
     timestamp  |-> Decimal(now),
     signature  |-> generate_signature(config, nonce, now, uri, BodyStr(body_option)),
     json       |-> Payload(body_option),
     body       |-> to_string(Payload(body_option))]

(***************************************************************************)
(* What the network and the server may answer                              *)
(***************************************************************************)
NotJson    == [kind |-> "notjson",    v |-> VNull]
Unreadable == [kind |-> "unreadable", v |-> VNull]
Json(v)    == [kind |-> "json",       v |-> v]
Envelope(data) == Json(VObj(<< <<DataKey, VStr(data)>> >>))

NetError == [net |-> "error", status |-> 0, body |-> Unreadable]
Response(status, body) == [net |-> "ok", status |-> status, body |-> body]
NoResponse == [net |-> "none", status |-> 0, body |-> Unreadable]

\* 201 Created, 304 Not Modified, 404 Not Found, 500 Internal Server Error
OtherStatuses == {201, 304, 404, 500}

\* "", "pong", a text of exactly one block, and "e" with an acute accent
Pong == <<112, 111, 110, 103>>
OneBlockText == <<48, 49, 50, 51, 52, 53, 54, 55, 56, 57, 65, 66, 67, 68, 69, 70>>
EAcute == <<195, 169>>
Plaintexts == {<<>>, Pong, OneBlockText, EAcute}
\* bytes that are not UTF-8
NotUtf8 == <<255, 254>>

\* a ciphertext with byte i changed
FlipByte(ct, i) == [ct EXCEPT ![i] = Xor(ct[i], 1)]

\* the strings a 200 answer may carry in `data`, for a client keyed (key, iv)
DataStrings(key, iv) ==
    {HexEncode(EncryptVec(key, iv, p)) : p \in Plaintexts}
    \cup {HexEncode(EncryptVec(key, iv, NotUtf8)),
          HexEncode(EncryptVec(OtherSecret32, iv, Pong)),
          HexEncode(FlipByte(EncryptVec(key, iv, Pong), BlockSize - 1)),
          HexEncode(FlipByte(EncryptVec(key, iv, Pong), BlockSize)),
          <<122, 122>>, <<97, 98, 99>>, <<48, 48>>, <<>>}

Bodies(key, iv) ==
    {Envelope(d) : d \in DataStrings(key, iv)}
    \cup {NotJson, Unreadable,
          Json(VObj(<<>>)),
          Json(VObj(<< <<DataKey, VNum(1)>> >>)),
          Json(VArr(<< << <<>>, VStr(HexEncode(EncryptVec(key, iv, Pong)))>> >>))}

\* A network failure or timeout, an answer with another status (send does not
\* read its body), or a 200 answer with one of the bodies above.
Outcomes(key, iv) ==
    {NetError}
    \cup {Response(st, Unreadable) : st \in OtherStatuses}
    \cup {Response(200, b) : b \in Bodies(key, iv)}

(***************************************************************************)
(* ApiClient::send, from the answer on                                     *)
(***************************************************************************)
\* Response::error_for_status: an error for 4xx and 5xx only
ErrorForStatus(status) ==
    IF status \in 400..599 THEN Err("ReqwestError") ELSE Ok(<<>>)

\* Err(ApiClientError::ReqwestError(response.error_for_status().unwrap_err()))
StatusFailure(status) ==
    IF ErrorForStatus(status).kind = "Err" THEN ErrorForStatus(status) ELSE Panic

\* the derived Deserialize of ApiResult, from a JSON object
RECURSIVE VisitMap(_, _, _)
VisitMap(kv, seen, data) ==
    IF kv = <<>> THEN [ok |-> seen, data |-> data]
    ELSE IF kv[1][1] # DataKey THEN VisitMap(Tail(kv), seen, data)
    ELSE IF seen \/ kv[1][2].t # "str" THEN [ok |-> FALSE, data |-> <<>>]
    ELSE VisitMap(Tail(kv), TRUE, kv[1][2].s)

\* ... and from a JSON array, which serde accepts for a struct: one string
VisitSeq(kv) ==
    IF Len(kv) = 1 /\ kv[1][2].t = "str" THEN [ok |-> TRUE, data |-> kv[1][2].s]
    ELSE [ok |-> FALSE, data |-> <<>>]

\* response.json::<ApiResult>()
ResponseJson(body) ==
    IF body.kind # "json" THEN [ok |-> FALSE, data |-> <<>>]
    ELSE IF body.v.t = "obj" THEN VisitMap(body.v.kv, FALSE, <<>>)
    ELSE IF body.v.t = "arr" THEN VisitSeq(body.v.kv)
    ELSE [ok |-> FALSE, data |-> <<>>]

\* response.json() fails with a reqwest::Error, which `?` converts with
\* From<reqwest::Error>
ResponseJsonError == Err("ReqwestError")

\* self.cipher.clone(): decrypt_vec consumes the clone, the client keeps its own
CipherAfterDecrypt_Shared(own, consumed) == consumed

CipherAfterDecrypt(own, consumed) == own

\* the order of the stages after a well-formed envelope
Decode_DecryptFirst(cipher, data) ==
    LET h == HexDecode(data)
        d == DecryptVec(cipher, h.bytes)
        u == FromUtf8(d.bytes)
    IN  IF ~d.ok
        THEN [result |-> Err("AesError"), stages |-> <<"hex", "decrypt">>,
              cipher |-> CipherAfterDecrypt(cipher, d.cipher)]
        ELSE IF ~h.ok
        THEN [result |-> Err("HexError"), stages |-> <<"hex", "decrypt">>,
              cipher |-> CipherAfterDecrypt(cipher, d.cipher)]
        ELSE IF ~u.ok
        THEN [result |-> Err("Utf8Error"), stages |-> <<"hex", "decrypt", "utf8">>,
              cipher |-> CipherAfterDecrypt(cipher, d.cipher)]
        ELSE [result |-> Ok(u.str), stages |-> <<"hex", "decrypt", "utf8">>,
              cipher |-> CipherAfterDecrypt(cipher, d.cipher)]

\* hex::decode(&api_result.data)?, self.cipher.clone().decrypt_vec(..)?,
\* String::from_utf8(..)?, Ok(decrypted_str)
Decode(cipher, data) ==
    LET h == HexDecode(data) IN
    IF ~h.ok
    THEN [result |-> Err("HexError"), stages |-> <<"hex">>, cipher |-> cipher]
    ELSE LET d == DecryptVec(cipher, h.bytes)
             after == CipherAfterDecrypt(cipher, d.cipher)
         IN  IF ~d.ok
             THEN [result |-> Err("AesError"), stages |-> <<"hex", "decrypt">>,
                   cipher |-> after]
             ELSE LET u == FromUtf8(d.bytes) IN
                  IF ~u.ok
                  THEN [result |-> Err("Utf8Error"),
                        stages |-> <<"hex", "decrypt", "utf8">>, cipher |-> after]
                  ELSE [result |-> Ok(u.str),
                        stages |-> <<"hex", "decrypt", "utf8">>, cipher |-> after]

\* everything send does once request.send() has completed with `outcome`
ProcessOutcome(cipher, outcome) ==
    IF outcome.net # "ok"
    THEN [result |-> Err("ReqwestError"), stages |-> <<>>, cipher |-> cipher]
    ELSE IF outcome.status # 200
    THEN [result |-> StatusFailure(outcome.status), stages |-> <<"status">>,
          cipher |-> cipher]
    ELSE LET j == ResponseJson(outcome.body) IN
         IF ~j.ok
         THEN [result |-> ResponseJsonError, stages |-> <<"status", "json">>,
               cipher |-> cipher]
         ELSE LET d == Decode(cipher, j.data) IN
              [result |-> d.result, stages |-> <<"status", "json">> \o d.stages,
               cipher |-> d.cipher]

(***************************************************************************)
(* The state                                                               *)
(***************************************************************************)
\* the number of send calls that may be running at once
MaxInFlight == 2

VARIABLES
    client,     \* the ApiClient: its config and its cipher, once constructed
    newResult,  \* the configuration last given to ApiClient::new, and its result
    calls,      \* the send calls: where each stands, its request, answer and result
    sig         \* two applications of generate_signature (SigSpec only)

vars == <<client, newResult, calls, sig>>

NoCipher == [key |-> <<>>, iv |-> <<>>]
NoConfig ==
    [app_id |-> <<>>, app_secret |-> <<>>, iv |-> <<>>, base_url |-> <<>>,
     content |-> <<>>]
NoClient == [exists |-> FALSE, config |-> NoConfig, cipher |-> NoCipher]

NoArgs == [method |-> "", uri |-> <<>>, body_option |-> NoBody]
IdleCall ==
    [pc |-> "idle", args |-> NoArgs, request |-> NoRequest, sent |-> 0,
     response |-> NoResponse, result |-> NoResult, stages |-> <<>>]

Slots == 1..MaxInFlight

\* the configurations ApiClient::new accepts, as (key, iv) pairs
ClientKeys ==
    {<<c.app_secret, c.iv>> : c \in {x \in Configs : NewFromSlices(x.app_secret, x.iv).ok}}

\* Evaluated once: what the server may answer a client keyed k, and what send
\* makes of each answer with the client's cipher as constructed.
ServerOutcomes == [k \in ClientKeys |-> Outcomes(k[1], k[2])]
Processed ==
    [k \in ClientKeys |->
        [o \in ServerOutcomes[k] |->
            ProcessOutcome(NewFromSlices(k[1], k[2]).cipher, o)]]

Process(cipher, outcome) ==
    LET k == <<cipher.key, cipher.iv>> IN
    IF k \in ClientKeys /\ outcome \in ServerOutcomes[k]
    THEN Processed[k][outcome]
    ELSE ProcessOutcome(cipher, outcome)

\* what may come back to a call of client c
AnswersTo(c) ==
    LET k == <<c.config.app_secret, c.config.iv>> IN
    IF c.exists /\ k \in ClientKeys THEN ServerOutcomes[k] ELSE {}

NoSig == [pc |-> "unused"]

Init ==
    /\ client = NoClient
    /\ newResult = [config |-> NoConfig, result |-> NoResult]
    /\ calls = [i \in Slots |-> IdleCall]
    /\ sig = NoSig

(***************************************************************************)
(* ApiClient::new                                                          *)
(***************************************************************************)
ApiClientNew(config) ==
    LET c == NewFromSlices(config.app_secret, config.iv) IN
    IF ~c.ok THEN [result |-> Err("InvalidConfig"), client |-> NoClient]
    ELSE [result |-> Ok(<<>>),
          client |-> [exists |-> TRUE, config |-> config, cipher |-> c.cipher]]

New(config) ==
    /\ ~client.exists
    /\ newResult' = [config |-> config, result |-> ApiClientNew(config).result]
    /\ client' = ApiClientNew(config).client
    /\ UNCHANGED <<calls, sig>>

(***************************************************************************)
(* ApiClient::send                                                         *)
(***************************************************************************)
\* The call runs to its first suspension point, request.send().await.  `built`
\* is whether Client::builder()...build() succeeded.  The configured base_url
\* and the uris are well-formed, so the request handed over is dispatched;
\* `sent` counts the HTTP requests the call has issued.
SendDispatch(i, method, uri, body_option, nonce, now, built) ==
    /\ client.exists
    /\ calls[i].pc # "awaiting"
    /\ calls' = [calls EXCEPT ![i] =
          IF built
          THEN [pc |-> "awaiting",
                args |-> [method |-> method, uri |-> uri, body_option |-> body_option],
                request |-> BuildRequest(client.config, method, uri, body_option,
                                         nonce, now),
                sent |-> 1, response |-> NoResponse, result |-> NoResult,
                stages |-> <<>>]
          ELSE [IdleCall EXCEPT !.pc = "returned",
                                !.result = Err("ReqwestError")]]
    /\ UNCHANGED <<client, newResult, sig>>

\* The answer arrives and the call runs to its end.
SendComplete(i, outcome) ==
    /\ client.exists
    /\ calls[i].pc = "awaiting"
    /\ LET r == Process(client.cipher, outcome) IN
       /\ calls' = [calls EXCEPT ![i] =
             [pc |-> IF r.result.kind = "Panic" THEN "panicked" ELSE "returned",
              args |-> NoArgs, request |-> NoRequest, sent |-> calls[i].sent,
              response |-> outcome, result |-> r.result, stages |-> r.stages]]
       /\ client' = [client EXCEPT !.cipher = r.cipher]
    /\ UNCHANGED <<newResult, sig>>

Next ==
    \/ \E config \in Configs : New(config)
    \/ \E i \in Slots, target \in Targets, body_option \in BodyOptions,
          moment \in Moments, built \in BOOLEAN :
          SendDispatch(i, target.method, target.uri, body_option, moment.nonce,
                       moment.now, built)
    \/ \E i \in Slots, outcome \in AnswersTo(client) : SendComplete(i, outcome)

Spec == Init /\ [][Next]_vars

(***************************************************************************)
(* generate_signature on its own: two applications to inputs drawn from    *)
(* the values above                                                        *)
(***************************************************************************)
SigInputs ==
    [app_id : {AppId1, AppId2}, app_secret : {Secret32, OtherSecret32},
     nonce : Nonces, timestamp : Timestamps, uri : Uris,
     body : {BodyStr(NoBody), BodyStr(SomeBody(EmptyObject)),
             BodyStr(SomeBody(KeyValue))}]

SigInit ==
    /\ client = NoClient
    /\ newResult = [config |-> NoConfig, result |-> NoResult]
    /\ calls = [i \in Slots |-> IdleCall]
    /\ sig \in [pc : {"drawn"}, a : SigInputs, b : SigInputs,
                sa : {NoSignature}, sb : {NoSignature}]

SignatureOf(in) ==
    generate_signature([app_id |-> in.app_id, app_secret |-> in.app_secret],
                       in.nonce, in.timestamp, in.uri, in.body)

ApplySignature ==
    /\ sig.pc = "drawn"
    /\ sig' = [sig EXCEPT !.pc = "signed", !.sa = SignatureOf(sig.a),
                          !.sb = SignatureOf(sig.b)]
    /\ UNCHANGED <<client, newResult, calls>>

SigNext == ApplySignature

SigSpec == SigInit /\ [][SigNext]_vars

(***************************************************************************)
(* Properties                                                              *)
(***************************************************************************)
Ended(c) == c.pc \in {"returned", "panicked"}

KeyOf(c) == <<c.config.app_secret, c.config.iv>>

Range(f) == {f[x] : x \in DOMAIN f}

\* C2: a call answered with a status other than 200 returns
\* Err(ReqwestError), and neither parses the envelope nor decodes nor decrypts.
NonOkStatusIsTransportError ==
    \A i \in Slots :
        (Ended(calls[i]) /\ calls[i].response.net = "ok"
                         /\ calls[i].response.status # 200)
        => /\ calls[i].result = Err("ReqwestError")
           /\ Range(calls[i].stages) \cap {"json", "hex", "decrypt", "utf8"} = {}

\* the answer a server gives that encrypts p for the client keyed k
RoundTripAnswer ==
    [k \in ClientKeys |->
        [p \in Plaintexts |->
            Response(200, Envelope(HexEncode(EncryptVec(k[1], k[2], p))))]]

\* C3: whatever the method, uri and body of a call, when it is answered 200 with
\* {"data": hex(encrypt(p))} under the client's secret and iv, it returns Ok(p).
RoundTrip ==
    [][\A i \in Slots, p \in Plaintexts :
          (/\ calls[i].pc = "awaiting"
           /\ calls'[i].pc # "awaiting"
           /\ calls'[i].response = RoundTripAnswer[KeyOf(client)][p])
          => calls'[i].result = Ok(p)]_vars

RoundTripHappened ==
    \E i \in Slots :
        /\ calls[i].pc = "returned"
        /\ calls[i].response = RoundTripAnswer[KeyOf(client)][OneBlockText]
        /\ calls[i].result = Ok(OneBlockText)

\* the signature the headers, the uri and a body string call for
ClaimedSignature(request, uri, body, app_secret) ==
    LowerHex(Sha1(request.app_id \o request.nonce \o request.timestamp \o uri
                  \o body \o app_secret))

\* C4: the HO-SIGNATURE of every request in flight is the signature of the app
\* id, nonce and timestamp in its headers, the caller's uri and the body string;
\* with a body that string is the value of the payload's data field and the
\* serialisation of the body, without one it is empty and the payload is {}.
RequestSignedAsSent ==
    \A i \in Slots :
        calls[i].pc = "awaiting" =>
            LET r == calls[i].request
                a == calls[i].args
            IN  /\ r.app_id = client.config.app_id
                /\ r.body = to_string(r.json)
                /\ a.body_option.some =>
                      /\ r.json.t = "obj"
                      /\ Len(r.json.kv) = 1
                      /\ r.json.kv[1][1] = DataKey
                      /\ r.json.kv[1][2].t = "str"
                      /\ r.json.kv[1][2].s = to_string(a.body_option.value)
                      /\ r.signature = ClaimedSignature(r, a.uri, r.json.kv[1][2].s,
                                                        client.config.app_secret)
                /\ ~a.body_option.some =>
                      /\ r.json = VObj(<<>>)
                      /\ r.body = <<123, 125>>
                      /\ r.signature = ClaimedSignature(r, a.uri, <<>>,
                                                        client.config.app_secret)

RequestWithBodyInFlight ==
    \E i, j \in Slots :
        /\ calls[i].pc = "awaiting" /\ calls[i].args.body_option.some
        /\ calls[j].pc = "awaiting" /\ ~calls[j].args.body_option.some

\* the six inputs of generate_signature in which two applications differ
Differing(a, b) ==
    {f \in {"app_id", "nonce", "timestamp", "uri", "body", "app_secret"} : a[f] # b[f]}

\* C5: the signature is the lowercase-hex SHA-1 of app_id + nonce +
\* decimal(timestamp) + uri + body + app_secret in that order; equal inputs give
\* equal signatures, and inputs that differ in exactly one of the six fields
\* give different signatures.
SignatureIsFunctionOfSixInputs ==
    sig.pc = "signed" =>
        /\ sig.sa = LowerHex(Sha1(sig.a.app_id \o sig.a.nonce
                                  \o Decimal(sig.a.timestamp) \o sig.a.uri
                                  \o sig.a.body \o sig.a.app_secret))
        /\ sig.a = sig.b => sig.sa = sig.sb
        /\ Cardinality(Differing(sig.a, sig.b)) = 1 => sig.sa # sig.sb

OneInputChanged ==
    /\ sig.pc = "signed"
    /\ Differing(sig.a, sig.b) = {"timestamp"}
    /\ sig.sa # sig.sb

\* the part of the signed text that the request parameters make up
SignedParameters(in) == in.nonce \o Decimal(in.timestamp) \o in.uri \o in.body

\* C8 as claimed: under one app_id and app_secret, two requests that differ in
\* any of nonce, timestamp, uri and body string have different signatures.
DifferentParametersDifferentSignature ==
    (/\ sig.pc = "signed"
     /\ sig.a.app_id = sig.b.app_id
     /\ sig.a.app_secret = sig.b.app_secret
     /\ Differing(sig.a, sig.b) # {})
    => sig.sa # sig.sb

\* C8 as amended: under one app_id and app_secret, two requests have the same
\* signature exactly when nonce + decimal(timestamp) + uri + body is the same
\* text for both; they differ whenever exactly one parameter differs.
DifferentSignedTextDifferentSignature ==
    (/\ sig.pc = "signed"
     /\ sig.a.app_id = sig.b.app_id
     /\ sig.a.app_secret = sig.b.app_secret)
    => /\ (sig.sa = sig.sb) <=> (SignedParameters(sig.a) = SignedParameters(sig.b))
       /\ Cardinality(Differing(sig.a, sig.b)) = 1 => sig.sa # sig.sb

SameSignedTextFromDifferentParameters ==
    /\ sig.pc = "signed"
    /\ sig.a.app_id = sig.b.app_id
    /\ sig.a.app_secret = sig.b.app_secret
    /\ Differing(sig.a, sig.b) = {"uri", "body"}
    /\ SignedParameters(sig.a) = SignedParameters(sig.b)
    /\ sig.sa = sig.sb

\* a body that is not JSON, or a JSON object without `data`, or with a `data`
\* that is not a string
NotAnEnvelope(body) ==
    \/ body.kind = "notjson"
    \/ /\ body.kind = "json"
       /\ body.v.t = "obj"
       /\ \/ \A e \in Range(body.v.kv) : e[1] # DataKey
          \/ \E e \in Range(body.v.kv) : e[1] = DataKey /\ e[2].t # "str"

\* C6: a call answered 200 with a body that is no envelope returns
\* Err(SerdeJsonError), and neither hex-decodes nor decrypts.
BadEnvelopeIsSerializationError ==
    \A i \in Slots :
        (Ended(calls[i]) /\ calls[i].response.net = "ok"
                         /\ calls[i].response.status = 200
                         /\ NotAnEnvelope(calls[i].response.body))
        => /\ calls[i].result = Err("SerdeJsonError")
           /\ Range(calls[i].stages) \cap {"hex", "decrypt", "utf8"} = {}

\* a string of an even number of hexadecimal digits
IsHexString(d) ==
    /\ Len(d) % 2 = 0
    /\ \A c \in Range(d) : c \in (48..57) \cup (97..102) \cup (65..70)

\* PKCS7: the last byte n is 1..16 and the last n bytes are all n
ValidPkcs7(data) ==
    /\ data # <<>>
    /\ LET n == data[Len(data)] IN
       /\ n \in 1..BlockSize
       /\ n <= Len(data)
       /\ \A j \in (Len(data) - n + 1)..Len(data) : data[j] = n

\* the first stage that fails on `data` under the key and iv k, and the text
\* that is left when none does
StageVerdict(k, data) ==
    IF ~IsHexString(data) THEN [fails |-> "hex", text |-> <<>>]
    ELSE LET ct == HexPairs(data) IN
         IF Len(ct) % BlockSize # 0 THEN [fails |-> "decrypt", text |-> <<>>]
         ELSE LET plain == DecryptBlocks([key |-> k[1], iv |-> k[2]], ct).out IN
              IF ~ValidPkcs7(plain) THEN [fails |-> "decrypt", text |-> <<>>]
              ELSE LET text == Take(plain, Len(plain) - plain[Len(plain)]) IN
                   IF ~Utf8Valid(text) THEN [fails |-> "utf8", text |-> <<>>]
                   ELSE [fails |-> "none", text |-> text]

Verdicts ==
    [k \in ClientKeys |->
        [d \in DataStrings(k[1], k[2]) |-> StageVerdict(k, d)]]

OneRequestAndTypedResult ==
    \A i \in Slots :
        /\ calls[i].sent <= 1
        /\ Ended(calls[i]) => calls[i].result.kind \in {"Ok", "Err"}
        /\ (Ended(calls[i]) /\ calls[i].response.net = "none") => calls[i].sent = 0

\* C10: the client keeps the config and the cipher it was constructed with, and
\* every call that was answered has the result that the cipher as constructed
\* gives for its own answer, whatever other calls ran before or beside it.
ClientNeverModified ==
    client.exists =>
        /\ client.config = newResult.config
        /\ client.cipher = [key |-> client.config.app_secret, iv |-> client.config.iv]
        /\ \A i \in Slots :
              (Ended(calls[i]) /\ calls[i].response.net # "none")
              => calls[i].result = Processed[KeyOf(client)][calls[i].response].result
        /\ \A i, j \in Slots :
              (Ended(calls[i]) /\ Ended(calls[j])
                  /\ calls[i].response = calls[j].response)
              => calls[i].result = calls[j].result

SameCiphertextTwice ==
    /\ client.exists
    /\ \A i \in Slots :
          /\ calls[i].pc = "returned"
          /\ calls[i].response = RoundTripAnswer[KeyOf(client)][OneBlockText]
          /\ calls[i].result = Ok(OneBlockText)

=============================================================================
